---- MODULE Spec2Model ----
(***************************************************************************)
(* Email Extractor Backend (src/app.py): the extraction routine, the       *)
(* company label, the upload decoding policy and the request handlers      *)
(* working on the output directory.                                        *)
(*                                                                         *)
(* Text is a sequence of code points and an uploaded file a sequence of    *)
(* bytes, both written as sequences of integers; Python compares strings   *)
(* code point by code point, which is LexLess below.                       *)
(***************************************************************************)
EXTENDS Integers, Sequences, FiniteSets, TLC

VARIABLES
    op, arg, ret,   \* a function applied to an input: which, the input, the result
    dir,            \* the output folder: file name -> file content
    now,            \* the clock, in seconds, as last read
    resp,           \* the response to the last request
    reqs,           \* the requests being served concurrently
    debug,          \* whether the application runs in debug mode
    cleared         \* history: a clear-history succeeded and no upload
                    \* extraction has completed since

vars == <<op, arg, ret, dir, now, resp, reqs, debug, cleared>>

(***************************************************************************)
(* Characters                                                              *)
(***************************************************************************)

\* The code points of the characters the inputs are written with.
CodeOf ==
    (" " :> 32) @@ ("%" :> 37) @@ ("+" :> 43) @@ ("-" :> 45) @@ ("." :> 46)
    @@ ("0" :> 48) @@ ("1" :> 49) @@ ("2" :> 50) @@ ("3" :> 51) @@ ("4" :> 52)
    @@ ("5" :> 53) @@ ("6" :> 54) @@ ("7" :> 55) @@ ("8" :> 56) @@ ("9" :> 57)
    @@ ("@" :> 64) @@ ("A" :> 65) @@ ("B" :> 66) @@ ("C" :> 67) @@ ("O" :> 79)
    @@ ("_" :> 95) @@ ("a" :> 97) @@ ("b" :> 98) @@ ("c" :> 99)
    @@ ("d" :> 100) @@ ("e" :> 101)
    @@ ("i" :> 105) @@ ("j" :> 106) @@ ("l" :> 108) @@ ("m" :> 109)
    @@ ("n" :> 110) @@ ("o" :> 111) @@ ("r" :> 114) @@ ("s" :> 115)
    @@ ("t" :> 116)
    @@ ("v" :> 118)
    @@ ("x" :> 120)

\* A string literal, given as a tuple of one-character strings.
Str(s) == [i \in 1..Len(s) |-> CodeOf[s[i]]]

IsUpper(c) == c \in 65..90
IsLowerCh(c) == c \in 97..122

\* [a-zA-Z]
Alpha == (65..90) \cup (97..122)

\* [a-zA-Z0-9._%+-]
LocalChars == Alpha \cup (48..57) \cup {46, 95, 37, 43, 45}

\* [a-zA-Z0-9.-]
DomainChars == Alpha \cup (48..57) \cup {46, 45}

\* str.lower() and str.upper() on one character (the matches are ASCII).
LowerCh(c) == IF IsUpper(c) THEN c + 32 ELSE c
UpperCh(c) == IF IsLowerCh(c) THEN c - 32 ELSE c

lower(s) == [i \in 1..Len(s) |-> LowerCh(s[i])]

\* Python's < on strings: the first differing code point decides, a proper
\* prefix is smaller.
RECURSIVE LexLessFrom(_, _, _)
LexLessFrom(a, b, k) ==
    IF k > Len(b) THEN FALSE
    ELSE IF k > Len(a) THEN TRUE
    ELSE IF a[k] # b[k] THEN a[k] < b[k]
    ELSE LexLessFrom(a, b, k + 1)

LexLess(a, b) == LexLessFrom(a, b, 1)

MaxOf(S) == CHOOSE x \in S : \A y \in S : y <= x

(***************************************************************************)
(* extract_emails_from_text                                                *)
(***************************************************************************)

\* The length of the longest run of characters of a class starting at t[i].
RECURSIVE RunLen(_, _, _)
RunLen(t, i, class) ==
    IF i > Len(t) \/ t[i] \notin class THEN 0
    ELSE 1 + RunLen(t, i + 1, class)

\* The rest of the pattern after the '@': [a-zA-Z0-9.-]+ \. [a-zA-Z]{2,}
\* with t[d] the first character after the '@'. The greedy domain gives back
\* one character at a time until a '.' and two letters follow; the result is
\* the position after the match, 0 when there is none.
DomainEnd(t, d) ==
    LET r == RunLen(t, d, DomainChars)
        ks == {k \in 1..r : /\ d + k <= Len(t)
                            /\ t[d + k] = 46
                            /\ RunLen(t, d + k + 1, Alpha) >= 2}
    IN  IF ks = {} THEN 0
        ELSE LET k == MaxOf(ks)
             IN  d + k + 1 + RunLen(t, d + k + 1, Alpha)

\* The pattern tried at start position i: the position after the match, or 0.
MatchEnd(t, i) ==
    LET l == RunLen(t, i, LocalChars)
        ls == {j \in 1..l : /\ i + j <= Len(t)
                            /\ t[i + j] = 64
                            /\ DomainEnd(t, i + j + 1) # 0}
    IN  IF ls = {} THEN 0 ELSE DomainEnd(t, i + MaxOf(ls) + 1)

\* re.findall(email_pattern, text): leftmost, non-overlapping matches.
RECURSIVE FindAll(_, _)
FindAll(t, pos) ==
    IF pos > Len(t) THEN <<>>
    ELSE LET e == MatchEnd(t, pos)
         IN  IF e = 0 THEN FindAll(t, pos + 1)
             ELSE <<SubSeq(t, pos, e - 1)>> \o FindAll(t, e)

\* DedupStep comparing the emails as written: "A@B.CO" after "a@b.co" is kept.
DedupStepExact(st, email) ==
    IF email \in st.seen THEN st
    ELSE [seen |-> st.seen \cup {email},
          unique_emails |-> Append(st.unique_emails, email)]

\* One iteration of the deduplication loop: remembers the lowercased email
\* and keeps the email when it was not seen.
DedupStep(st, email) ==
    IF lower(email) \in st.seen THEN st
    ELSE [seen |-> st.seen \cup {lower(email)},
          unique_emails |-> Append(st.unique_emails, email)]

RECURSIVE DedupLoop(_, _, _)
DedupLoop(emails, i, st) ==
    IF i > Len(emails) THEN st
    ELSE DedupLoop(emails, i + 1, DedupStep(st, emails[i]))

\* SortKey without the lowercasing: sorted(unique_emails).
SortKeyRaw(x) == x

\* The key of the final sort.
SortKey(x) == lower(x)

\* sorted(xs, key=...): stable, ascending by key.
RECURSIVE Insert(_, _)
Insert(sorted, x) ==
    IF sorted = <<>> THEN <<x>>
    ELSE IF LexLess(SortKey(x), SortKey(sorted[Len(sorted)]))
         THEN Append(Insert(SubSeq(sorted, 1, Len(sorted) - 1), x),
                     sorted[Len(sorted)])
         ELSE Append(sorted, x)

RECURSIVE SortedByKey(_, _)
SortedByKey(xs, i) ==
    IF i = 0 THEN <<>> ELSE Insert(SortedByKey(xs, i - 1), xs[i])

extract_emails_from_text(text) ==
    LET emails == FindAll(text, 1)
        st == DedupLoop(emails, 1, [seen |-> {}, unique_emails |-> <<>>])
    IN  SortedByKey(st.unique_emails, Len(st.unique_emails))

(***************************************************************************)
(* extract_company_from_email                                              *)
(***************************************************************************)

\* A Python value handed to a function: a string, or something that is not.
\* NonStr stands for a number, PyList for a list of values.
StrVal(s) == [isStr |-> TRUE, isList |-> FALSE, val |-> s]
NonStr == [isStr |-> FALSE, isList |-> FALSE, val |-> <<>>]
PyList(items) == [isStr |-> FALSE, isList |-> TRUE, val |-> items]

\* s.split(sep) for a one-character separator.
RECURSIVE split(_, _)
split(s, sep) ==
    IF \A i \in 1..Len(s) : s[i] # sep THEN <<s>>
    ELSE LET p == CHOOSE i \in 1..Len(s) :
                      s[i] = sep /\ \A j \in 1..(i - 1) : s[j] # sep
         IN  <<SubSeq(s, 1, p - 1)>> \o split(SubSeq(s, p + 1, Len(s)), sep)

\* s.capitalize()
capitalize(s) ==
    [i \in 1..Len(s) |-> IF i = 1 THEN UpperCh(s[i]) ELSE LowerCh(s[i])]

\* CompanyBody giving up on a domain without a '.': company = split('.')[1]
\* style indexing, which raises where the code returns the whole domain.
CompanyBodyNeedsDot(email) ==
    IF ~email.isStr THEN [exc |-> "AttributeError", val |-> <<>>]
    ELSE LET parts == split(email.val, 64)
         IN  IF Len(parts) < 2 THEN [exc |-> "IndexError", val |-> <<>>]
             ELSE LET domain == parts[2]
                  IN  IF Len(split(domain, 46)) < 2
                      THEN [exc |-> "IndexError", val |-> <<>>]
                      ELSE [exc |-> "none",
                            val |-> capitalize(split(domain, 46)[1])]

\* The body of the try block: the exception it ends with, or its value.
CompanyBody(email) ==
    IF ~email.isStr THEN [exc |-> "AttributeError", val |-> <<>>]
    ELSE LET parts == split(email.val, 64)
         IN  IF Len(parts) < 2 THEN [exc |-> "IndexError", val |-> <<>>]
             ELSE LET domain == parts[2]
                      company == split(domain, 46)[1]
                  IN  [exc |-> "none", val |-> capitalize(company)]

\* What the bare except clause does with the body's outcome.
CompanyExcept(r) ==
    IF r.exc # "none" THEN [raised |-> "none", val |-> <<>>]
    ELSE [raised |-> "none", val |-> r.val]

extract_company_from_email(email) == CompanyExcept(CompanyBody(email))

(***************************************************************************)
(* The decoding of an uploaded file                                        *)
(***************************************************************************)

\* UTF-8: the number of bytes a sequence starting with byte b0 has, 0 for a
\* byte that starts none.
Utf8Need(b0) ==
    IF b0 < 128 THEN 1
    ELSE IF b0 \in 194..223 THEN 2
    ELSE IF b0 \in 224..239 THEN 3
    ELSE IF b0 \in 240..244 THEN 4
    ELSE 0

\* The bytes allowed at place k (2, 3, 4) of a sequence starting with b0.
Utf8Cont(b0, k) ==
    IF k = 2 /\ b0 = 224 THEN 160..191
    ELSE IF k = 2 /\ b0 = 237 THEN 128..159
    ELSE IF k = 2 /\ b0 = 240 THEN 144..191
    ELSE IF k = 2 /\ b0 = 244 THEN 128..143
    ELSE 128..191

\* How many bytes from b[i] on form the start of a well-formed sequence.
Utf8Good(b, i) ==
    LET n == Utf8Need(b[i])
    IN  MaxOf({m \in 0..n : \A k \in 2..m :
                   i + k - 1 <= Len(b) /\ b[i + k - 1] \in Utf8Cont(b[i], k)})

Utf8CodePoint(b, i, n) ==
    IF n = 1 THEN b[i]
    ELSE IF n = 2 THEN (b[i] - 192) * 64 + (b[i + 1] - 128)
    ELSE IF n = 3 THEN (b[i] - 224) * 4096 + (b[i + 1] - 128) * 64
                       + (b[i + 2] - 128)
    ELSE (b[i] - 240) * 262144 + (b[i + 1] - 128) * 4096
         + (b[i + 2] - 128) * 64 + (b[i + 3] - 128)

\* bytes.decode('utf-8', errors=...): strict stops at the first ill-formed
\* sequence with a UnicodeDecodeError, ignore drops it and goes on.
RECURSIVE Utf8Decode(_, _, _)
Utf8Decode(b, i, errors) ==
    IF i > Len(b) THEN [ok |-> TRUE, text |-> <<>>]
    ELSE LET n == Utf8Need(b[i])
             m == Utf8Good(b, i)
         IN  IF n > 0 /\ m = n
             THEN LET rest == Utf8Decode(b, i + n, errors)
                  IN  [ok |-> rest.ok,
                       text |-> <<Utf8CodePoint(b, i, n)>> \o rest.text]
             ELSE IF errors = "strict" THEN [ok |-> FALSE, text |-> <<>>]
             ELSE Utf8Decode(b, i + (IF m = 0 THEN 1 ELSE m), errors)

\* cp1252: the bytes 0x80..0x9F that differ from latin-1; five are undefined.
Cp1252High ==
    (128 :> 8364) @@ (130 :> 8218) @@ (131 :> 402) @@ (132 :> 8222)
    @@ (133 :> 8230) @@ (134 :> 8224) @@ (135 :> 8225) @@ (136 :> 710)
    @@ (137 :> 8240) @@ (138 :> 352) @@ (139 :> 8249) @@ (140 :> 338)
    @@ (142 :> 381) @@ (145 :> 8216) @@ (146 :> 8217) @@ (147 :> 8220)
    @@ (148 :> 8221) @@ (149 :> 8226) @@ (150 :> 8211) @@ (151 :> 8212)
    @@ (152 :> 732) @@ (153 :> 8482) @@ (154 :> 353) @@ (155 :> 8250)
    @@ (156 :> 339) @@ (158 :> 382) @@ (159 :> 376)

Cp1252Decode(b) ==
    IF \E i \in 1..Len(b) : b[i] \in (128..159) \ DOMAIN Cp1252High
    THEN [ok |-> FALSE, text |-> <<>>]
    ELSE [ok |-> TRUE,
          text |-> [i \in 1..Len(b) |->
                       IF b[i] \in DOMAIN Cp1252High THEN Cp1252High[b[i]]
                       ELSE b[i]]]

\* latin-1 (iso-8859-1): every byte is the code point of the same number.
Latin1Decode(b) == [ok |-> TRUE, text |-> b]

\* file.read().decode(encoding); ok FALSE is a UnicodeDecodeError.
decode(b, encoding) ==
    IF encoding = "utf-8" THEN Utf8Decode(b, 1, "strict")
    ELSE IF encoding = "cp1252" THEN Cp1252Decode(b)
    ELSE Latin1Decode(b)

encodings == <<"utf-8", "latin-1", "cp1252", "iso-8859-1">>

\* DecodeLoop without the break: a later encoding that decodes overwrites
\* content.
RECURSIVE DecodeLoopNoBreak(_, _, _)
DecodeLoopNoBreak(b, i, tried) ==
    IF i > Len(encodings)
    THEN [isNone |-> TRUE, content |-> <<>>, used |-> "none", tried |-> tried]
    ELSE LET r == decode(b, encodings[i])
             later == DecodeLoopNoBreak(b, i + 1, Append(tried, encodings[i]))
         IN  IF r.ok /\ later.isNone
             THEN [isNone |-> FALSE, content |-> r.text, used |-> encodings[i],
                   tried |-> later.tried]
             ELSE later

\* The for loop over the encodings: content stays None (isNone) while every
\* attempt so far has failed; tried lists the attempts made.
RECURSIVE DecodeLoop(_, _, _)
DecodeLoop(b, i, tried) ==
    IF i > Len(encodings)
    THEN [isNone |-> TRUE, content |-> <<>>, used |-> "none", tried |-> tried]
    ELSE LET r == decode(b, encodings[i])
         IN  IF r.ok
             THEN [isNone |-> FALSE, content |-> r.text, used |-> encodings[i],
                   tried |-> Append(tried, encodings[i])]
             ELSE DecodeLoop(b, i + 1, Append(tried, encodings[i]))

\* The decoding step of the upload handler, with the fallback after the loop.
DecodeUpload(b) ==
    LET r == DecodeLoop(b, 1, <<>>)
    IN  IF r.isNone
        THEN [isNone |-> FALSE, content |-> Utf8Decode(b, 1, "ignore").text,
              used |-> "utf-8-ignore", tried |-> r.tried]
        ELSE r

(***************************************************************************)
(* The output folder and the request handlers                              *)
(*                                                                         *)
(* A handler is an operator from the folder (and the clock, the request)   *)
(* to the response and the folder it leaves. A stored file is modelled by  *)
(* the value written to it: json.load reads back what json.dump wrote.     *)
(* extraction_time, a second clock reading stored in the JSON record, is   *)
(* left out: no handler decides anything by it.                            *)
(***************************************************************************)

TwoDigits(n) == <<48 + (n \div 10), 48 + (n % 10)>>

\* datetime.now().strftime('%Y%m%d_%H%M%S') at second t of the day: the time
\* fields, zero-padded. The date fields are the same text in every name of
\* one day and are left out.
strftime(t) ==
    TwoDigits((t \div 3600) % 24) \o TwoDigits((t \div 60) % 60)
    \o TwoDigits(t % 60)

json_filename(timestamp) ==
    Str(<<"e", "m", "a", "i", "l", "s", "_">>) \o timestamp
    \o Str(<<".", "j", "s", "o", "n">>)

csv_filename(timestamp) ==
    Str(<<"e", "m", "a", "i", "l", "s", "_">>) \o timestamp
    \o Str(<<".", "c", "s", "v">>)

EndsWith(s, suffix) ==
    /\ Len(s) >= Len(suffix)
    /\ SubSeq(s, Len(s) - Len(suffix) + 1, Len(s)) = suffix

\* "_".join(filename.split()): runs of spaces become one '_', those at the
\* ends are dropped.
RECURSIVE JoinWords(_, _, _, _)
JoinWords(s, i, acc, pending) ==
    IF i > Len(s) THEN acc
    ELSE IF s[i] = 32 THEN JoinWords(s, i + 1, acc, acc # <<>>)
    ELSE JoinWords(s, i + 1,
                   (IF pending THEN Append(acc, 95) ELSE acc) \o <<s[i]>>,
                   FALSE)

\* s.strip("._")
RECURSIVE StripDots(_)
StripDots(s) ==
    IF s = <<>> THEN s
    ELSE IF s[1] \in {46, 95} THEN StripDots(Tail(s))
    ELSE IF s[Len(s)] \in {46, 95} THEN StripDots(SubSeq(s, 1, Len(s) - 1))
    ELSE s

\* werkzeug's secure_filename on an ASCII name without path separators: the
\* words joined by '_', the characters outside [A-Za-z0-9_.-] removed, then
\* '.' and '_' stripped from both ends.
secure_filename(filename) ==
    LET joined == JoinWords(filename, 1, <<>>, FALSE)
        kept == SelectSeq(joined,
                          LAMBDA c : c \in Alpha \cup (48..57) \cup {95, 46, 45})
    IN  StripDots(kept)

\* The list of {email, company} of a response or a JSON record.
EmailData(emails) ==
    [i \in 1..Len(emails) |->
        [email |-> emails[i],
         company |-> extract_company_from_email(StrVal(emails[i])).val]]

\* save_to_json: the file is created or overwritten.
save_to_json(d, data, filename) ==
    (filename :> [type |-> "json", data |-> data]) @@ d

\* save_to_csv: the header row, then one row per email.
save_to_csv(d, emails, filename) ==
    (filename :>
        [type |-> "csv",
         rows |-> <<<<"Email", "Company/Domain">>>>
                  \o [i \in 1..Len(emails) |->
                         <<emails[i],
                           extract_company_from_email(StrVal(emails[i])).val>>]])
    @@ d

\* jsonify(...), status: a structured response.
JsonResp(name, status, success, error, body) ==
    [op |-> name, kind |-> "json", status |-> status, success |-> success,
     error |-> error, body |-> body, exc |-> "none"]

\* send_file(...): a file's content with a download name.
FileResp(name, content, download_name) ==
    [op |-> name, kind |-> "file", status |-> 200, success |-> "absent",
     error |-> "", body |-> [content |-> content, name |-> download_name],
     exc |-> "none"]

\* An exception leaves the handler.
Raised(name, exc) ==
    [op |-> name, kind |-> "exception", status |-> 500, success |-> "absent",
     error |-> "", body |-> <<>>, exc |-> exc]

\* POST /api/extract
extract_emails(d, t, request) ==
    IF ~request.hasFile
    THEN [resp |-> JsonResp("extract", 400, "false", "No file uploaded", <<>>),
          dir |-> d]
    ELSE IF request.filename = <<>>
    THEN [resp |-> JsonResp("extract", 400, "false", "No file selected", <<>>),
          dir |-> d]
    ELSE LET content == DecodeUpload(request.bytes).content
             emails == extract_emails_from_text(content)
             timestamp == strftime(t)
             json_data == [source_file |-> secure_filename(request.filename),
                           total_emails |-> Len(emails),
                           emails |-> EmailData(emails)]
             d1 == save_to_json(d, json_data, json_filename(timestamp))
             d2 == save_to_csv(d1, emails, csv_filename(timestamp))
         IN  [resp |-> JsonResp("extract", 200, "true", "",
                                [total |-> Len(emails), emails |-> emails,
                                 data |-> json_data.emails,
                                 files |-> [json |-> json_filename(timestamp),
                                            csv |-> csv_filename(timestamp)]]),
              dir |-> d2]

\* request.get_json() as the handlers see it: None, a number, or an object
\* with its keys.
JNull == [type |-> "null", keys |-> {}, val |-> <<>>]
JNumber == [type |-> "number", keys |-> {}, val |-> <<>>]
JObject(fields) == [type |-> "object", keys |-> DOMAIN fields, val |-> fields]

\* not data
Falsy(data) == data.type = "null" \/ (data.type = "object" /\ data.keys = {})

\* extract_from_text saving its result as the upload handler does.
extract_from_text_saving(d, data) ==
    IF Falsy(data) \/ data.type = "number" \/ "text" \notin data.keys
       \/ ~data.val["text"].isStr
    THEN [resp |-> JsonResp("extract-text", 400, "false", "No text provided",
                            <<>>),
          dir |-> d]
    ELSE LET emails == extract_emails_from_text(data.val["text"].val)
         IN  [resp |-> JsonResp("extract-text", 200, "true", "",
                                [total |-> Len(emails), emails |-> emails,
                                 data |-> EmailData(emails)]),
              dir |-> save_to_csv(d, emails, csv_filename(strftime(now)))]

\* POST /api/extract-text
extract_from_text(d, data) ==
    IF Falsy(data)
    THEN [resp |-> JsonResp("extract-text", 400, "false", "No text provided",
                            <<>>),
          dir |-> d]
    ELSE IF data.type = "number"
    THEN [resp |-> Raised("extract-text", "TypeError"), dir |-> d]
    ELSE IF "text" \notin data.keys
    THEN [resp |-> JsonResp("extract-text", 400, "false", "No text provided",
                            <<>>),
          dir |-> d]
    ELSE LET text == data.val["text"]
         IN  IF ~text.isStr
             THEN [resp |-> Raised("extract-text", "TypeError"), dir |-> d]
             ELSE LET emails == extract_emails_from_text(text.val)
                  IN  [resp |-> JsonResp("extract-text", 200, "true", "",
                                         [total |-> Len(emails),
                                          emails |-> emails,
                                          data |-> EmailData(emails)]),
                       dir |-> d]

\* GET /api/download/<filename>. os.path.exists holds of a stored file and,
\* for the empty name, of the output folder itself, which send_file cannot
\* open.
download_file(d, filename) ==
    LET name == secure_filename(filename)
        exists == name = <<>> \/ name \in DOMAIN d
    IN  IF ~exists
        THEN [resp |-> JsonResp("download", 404, "false", "File not found",
                                <<>>),
              dir |-> d]
        ELSE IF name = <<>>
        THEN [resp |-> Raised("download", "IsADirectoryError"), dir |-> d]
        ELSE [resp |-> FileResp("download", d[name], name), dir |-> d]

\* POST /api/download-csv
download_csv_direct(d, t, data) ==
    IF Falsy(data)
    THEN [resp |-> JsonResp("download-csv", 400, "false", "No emails provided",
                            <<>>),
          dir |-> d]
    ELSE IF data.type = "number"
    THEN [resp |-> Raised("download-csv", "TypeError"), dir |-> d]
    ELSE IF "emails" \notin data.keys
    THEN [resp |-> JsonResp("download-csv", 400, "false", "No emails provided",
                            <<>>),
          dir |-> d]
    ELSE LET emails == data.val["emails"]
         IN  IF ~emails.isList
             THEN [resp |-> Raised("download-csv", "TypeError"), dir |-> d]
             ELSE [resp |->
                       FileResp("download-csv",
                                [type |-> "csv",
                                 rows |-> <<<<"Email", "Company/Domain">>>>
                                     \o [i \in 1..Len(emails.val) |->
                                            <<emails.val[i],
                                              extract_company_from_email(
                                                  emails.val[i]).val>>]],
                                Str(<<"e", "x", "t", "r", "a", "c", "t", "e",
                                      "d", "_", "e", "m", "a", "i", "l", "s",
                                      "_">>)
                                \o strftime(t) \o Str(<<".", "c", "s", "v">>)),
                   dir |-> d]

\* InsertReverse without reverse=True.
RECURSIVE InsertAscending(_, _)
InsertAscending(sorted, x) ==
    IF sorted = <<>> THEN <<x>>
    ELSE IF LexLess(x, sorted[Len(sorted)])
         THEN Append(InsertAscending(SubSeq(sorted, 1, Len(sorted) - 1), x),
                     sorted[Len(sorted)])
         ELSE Append(sorted, x)

\* sorted(json_files, reverse=True)
RECURSIVE InsertReverse(_, _)
InsertReverse(sorted, x) ==
    IF sorted = <<>> THEN <<x>>
    ELSE IF LexLess(sorted[Len(sorted)], x)
         THEN Append(InsertReverse(SubSeq(sorted, 1, Len(sorted) - 1), x),
                     sorted[Len(sorted)])
         ELSE Append(sorted, x)

\* The names of os.listdir, which lists them in no particular order, sorted.
RECURSIVE SortedReverse(_)
SortedReverse(names) ==
    IF names = {} THEN <<>>
    ELSE LET x == CHOOSE x \in names : TRUE
         IN  InsertReverse(SortedReverse(names \ {x}), x)

HistoryLimit == 20

\* xs[:n]
Take(xs, n) == SubSeq(xs, 1, IF Len(xs) < n THEN Len(xs) ELSE n)

\* GET /api/history
get_history(d) ==
    LET json_files == {f \in DOMAIN d : EndsWith(f, Str(<<".", "j", "s", "o", "n">>))}
        listed == Take(SortedReverse(json_files), HistoryLimit)
    IN  [resp |-> JsonResp("history", 200, "true", "",
                           [i \in 1..Len(listed) |->
                               [filename |-> listed[i],
                                source |-> d[listed[i]].data.source_file,
                                total |-> d[listed[i]].data.total_emails]]),
         dir |-> d]

\* RemoveAll removing the JSON records only.
RemoveJsonOnly(d, names) ==
    [f \in (DOMAIN d) \ {n \in names : EndsWith(n, Str(<<".", "j", "s", "o", "n">>))}
        |-> d[f]]

\* The loop of clear_history: os.remove on every name of os.listdir.
RemoveAll(d, names) == [f \in (DOMAIN d) \ names |-> d[f]]

\* POST /api/clear-history
clear_history(d) ==
    [resp |-> JsonResp("clear-history", 200, "true", "", <<>>),
     dir |-> RemoveAll(d, DOMAIN d)]

\* @app.errorhandler(500)
server_error(r) ==
    [op |-> r.op, kind |-> "json", status |-> 500, success |-> "false",
     error |-> "Internal server error", body |-> <<>>, exc |-> r.exc]

\* What the client gets: the handler's response; for an exception that left
\* the handler, the 500 handler's response, or in debug mode (app.run(debug=
\* True)) the debugger's page, the exception being propagated.
Dispatch(r, dbg) ==
    IF r.kind # "exception" THEN r
    ELSE IF dbg THEN [r EXCEPT !.kind = "debugger"]
    ELSE server_error(r)

(***************************************************************************)
(* The inputs of the functions                                             *)
(***************************************************************************)

MaxTokens == 5
MaxAddr == 4
MaxBytes == 3

SeqsUpTo(S, n) == UNION {[1..k -> S] : k \in 0..n}

RECURSIVE Flatten(_)
Flatten(ss) == IF ss = <<>> THEN <<>> ELSE Head(ss) \o Flatten(Tail(ss))

\* The pieces the input texts are put together from.
Tokens ==
    {Str(<<"a", "@", "b", ".", "c", "o">>),
     Str(<<"A", "@", "B", ".", "C", "O">>),
     Str(<<"B", "@", "a", ".", "c", "o">>),
     Str(<<" ">>), Str(<<"x">>), Str(<<".">>)}

Texts == {Flatten(ts) : ts \in SeqsUpTo(Tokens, MaxTokens)}

AddrChars == {CodeOf["a"], CodeOf["B"], CodeOf["@"], CodeOf["."]}

Addrs == {StrVal(s) : s \in SeqsUpTo(AddrChars, MaxAddr)} \cup {NonStr}

\* 'a', and bytes of the sequences C3 A9, E2 82 AC, with 0x81 and 0xFF.
UploadBytes == {97, 195, 169, 226, 130, 129, 255}

Uploads == SeqsUpTo(UploadBytes, MaxBytes)

(***************************************************************************)
(* The functions applied to an input                                       *)
(***************************************************************************)

NoRet == [kind |-> "none"]

NoResp ==
    [op |-> "none", kind |-> "none", status |-> 0, success |-> "absent",
     error |-> "", body |-> <<>>, exc |-> "none"]

StartTime == 50

\* The server as started, serving nothing.
InitServer ==
    /\ dir = <<>>
    /\ now = StartTime
    /\ resp = NoResp
    /\ reqs = <<>>
    /\ cleared = FALSE

InitFn ==
    /\ op = "input"
    /\ arg \in [kind : {"text"}, val : Texts]
               \cup [kind : {"email"}, val : Addrs]
               \cup [kind : {"bytes"}, val : Uploads]
    /\ ret = NoRet
    /\ debug = TRUE
    /\ InitServer

CallExtract ==
    /\ op = "input" /\ arg.kind = "text"
    /\ op' = "extract_emails_from_text"
    /\ ret' = extract_emails_from_text(arg.val)
    /\ UNCHANGED <<arg, dir, now, resp, reqs, debug, cleared>>

CallCompany ==
    /\ op = "input" /\ arg.kind = "email"
    /\ op' = "extract_company_from_email"
    /\ ret' = extract_company_from_email(arg.val)
    /\ UNCHANGED <<arg, dir, now, resp, reqs, debug, cleared>>

CallDecode ==
    /\ op = "input" /\ arg.kind = "bytes"
    /\ op' = "decode"
    /\ ret' = DecodeUpload(arg.val)
    /\ UNCHANGED <<arg, dir, now, resp, reqs, debug, cleared>>

NextFn == CallExtract \/ CallCompany \/ CallDecode

SpecFn == InitFn /\ [][NextFn]_vars

(***************************************************************************)
(* The server, one request at a time                                       *)
(***************************************************************************)

Window == 2
HistWindow == 21

\* The seconds gone by between two readings of the clock: none (the same
\* second), one, or several.
Elapsed == {0, 1, 5}

MaxTime == StartTime + Window
HistMaxTime == StartTime + HistWindow

NoFile == [hasFile |-> FALSE, filename |-> <<>>, bytes |-> <<>>]
File(filename, bytes) ==
    [hasFile |-> TRUE, filename |-> filename, bytes |-> bytes]

\* An upload of "a@b.co" as "a b.csv", of "A@B.CO B@a.co" as "x.csv", and of
\* the byte 0xFF before "B@a.co", which is no UTF-8.
FileA == File(Str(<<"a", " ", "b", ".", "c", "s", "v">>),
              Str(<<"a", "@", "b", ".", "c", "o">>))
FileB == File(Str(<<"x", ".", "c", "s", "v">>),
              Str(<<"A", "@", "B", ".", "C", "O", " ",
                    "B", "@", "a", ".", "c", "o">>))
FileC == File(Str(<<"x", ".", "c", "s", "v">>),
              <<255>> \o Str(<<"B", "@", "a", ".", "c", "o">>))

UploadRequests ==
    {NoFile, File(<<>>, Str(<<"a", "@", "b", ".", "c", "o">>)),
     FileA, FileB, FileC}

TextBodies ==
    {JNull, JNumber, JObject(<<>>),
     JObject([emails |-> PyList(<<>>)]),
     JObject([text |-> StrVal(Str(<<"A", "@", "B", ".", "C", "O", " ",
                                    "a", "@", "b", ".", "c", "o">>))]),
     JObject([text |-> NonStr])}

CsvBodies ==
    {JNull, JNumber, JObject(<<>>),
     JObject([text |-> StrVal(<<>>)]),
     JObject([emails |-> PyList(<<StrVal(Str(<<"a", "@", "b", ".", "c", "o">>)),
                                  NonStr>>)]),
     JObject([emails |-> NonStr])}

\* The names the upload handler gives its files up to second maxT.
ArtifactNames(maxT) ==
    {json_filename(strftime(t)) : t \in StartTime..maxT}
    \cup {csv_filename(strftime(t)) : t \in StartTime..maxT}

\* Names of no artifact; "___" is sanitized to the empty name.
OtherNames == {Str(<<"_", "_", "_">>), Str(<<"x", ".", "c", "s", "v">>)}

\* The response as the client gets it, with the request it answers.
Answer(r, request) == [request |-> request] @@ Dispatch(r, debug)

Init ==
    /\ op = "serve" /\ arg = NoRet /\ ret = NoRet
    /\ debug \in BOOLEAN
    /\ InitServer

\* An upload; the handler reads the clock, which has gone on by e seconds
\* since it was last read.
Upload(requests, maxT) ==
    \E request \in requests, e \in Elapsed :
        /\ now + e <= maxT
        /\ LET r == extract_emails(dir, now + e, request)
           IN  /\ now' = now + e
               /\ dir' = r.dir
               /\ resp' = Answer(r.resp, request)
               /\ cleared' = (cleared /\ r.resp.status # 200)
        /\ UNCHANGED <<op, arg, ret, reqs, debug>>

ExtractText ==
    \E data \in TextBodies :
        LET r == extract_from_text(dir, data)
        IN  /\ dir' = r.dir
            /\ resp' = Answer(r.resp, data)
            /\ UNCHANGED <<op, arg, ret, now, reqs, debug, cleared>>

Download ==
    \E filename \in ArtifactNames(MaxTime) \cup OtherNames :
        LET r == download_file(dir, filename)
        IN  /\ dir' = r.dir
            /\ resp' = Answer(r.resp, filename)
            /\ UNCHANGED <<op, arg, ret, now, reqs, debug, cleared>>

DownloadCsv ==
    \E data \in CsvBodies, e \in Elapsed :
        /\ now + e <= MaxTime
        /\ LET r == download_csv_direct(dir, now + e, data)
           IN  /\ now' = now + e
               /\ dir' = r.dir
               /\ resp' = Answer(r.resp, data)
        /\ UNCHANGED <<op, arg, ret, reqs, debug, cleared>>

GetHistory ==
    LET r == get_history(dir)
    IN  /\ dir' = r.dir
        /\ resp' = Answer(r.resp, <<>>)
        /\ UNCHANGED <<op, arg, ret, now, reqs, debug, cleared>>

ClearHistory ==
    LET r == clear_history(dir)
    IN  /\ dir' = r.dir
        /\ resp' = Answer(r.resp, <<>>)
        /\ cleared' = (r.resp.success = "true")
        /\ UNCHANGED <<op, arg, ret, now, reqs, debug>>

UploadFile == Upload(UploadRequests, MaxTime)

Next ==
    \/ UploadFile
    \/ ExtractText
    \/ Download
    \/ DownloadCsv
    \/ GetHistory
    \/ ClearHistory

Spec == Init /\ [][Next]_vars

(***************************************************************************)
(* Uploads, history listings and clear-history over more than twenty       *)
(* seconds                                                                 *)
(***************************************************************************)

InitHist ==
    /\ op = "serve" /\ arg = NoRet /\ ret = NoRet
    /\ debug = TRUE
    /\ InitServer

UploadRecord == Upload({FileA}, HistMaxTime)

NextHist == UploadRecord \/ GetHistory \/ ClearHistory

SpecHist == InitHist /\ [][NextHist]_vars

(***************************************************************************)
(* Uploads and clear-history served concurrently, step by step             *)
(***************************************************************************)

MaxReqs == 3
ConcWindow == 1

ConcMaxTime == StartTime + ConcWindow

Request(kind, pc, request) ==
    [kind |-> kind, pc |-> pc, request |-> request, emails |-> <<>>,
     timestamp |-> <<>>, listing |-> {}, result |-> "none"]

Quiescent == \A i \in 1..Len(reqs) : reqs[i].pc = "done"

StartUpload ==
    /\ Len(reqs) < MaxReqs
    /\ \E request \in {FileA, FileB} :
           reqs' = Append(reqs, Request("upload", "extract", request))
    /\ UNCHANGED <<op, arg, ret, dir, now, resp, debug, cleared>>

\* Lines 122-146: decoding, extraction and the clock reading.
UploadExtractAt(i) ==
    /\ reqs[i].kind = "upload" /\ reqs[i].pc = "extract"
    /\ \E e \in Elapsed :
           /\ now + e <= ConcMaxTime
           /\ now' = now + e
           /\ reqs' = [reqs EXCEPT
                  ![i].emails = extract_emails_from_text(
                                    DecodeUpload(reqs[i].request.bytes).content),
                  ![i].timestamp = strftime(now + e),
                  ![i].pc = "save_json"]
    /\ UNCHANGED <<op, arg, ret, dir, resp, debug, cleared>>

\* Line 163
UploadSaveJsonAt(i) ==
    /\ reqs[i].kind = "upload" /\ reqs[i].pc = "save_json"
    /\ dir' = save_to_json(dir,
                  [source_file |-> secure_filename(reqs[i].request.filename),
                   total_emails |-> Len(reqs[i].emails),
                   emails |-> EmailData(reqs[i].emails)],
                  json_filename(reqs[i].timestamp))
    /\ reqs' = [reqs EXCEPT ![i].pc = "save_csv"]
    /\ UNCHANGED <<op, arg, ret, now, resp, debug, cleared>>

\* Lines 164-175
UploadSaveCsvAt(i) ==
    /\ reqs[i].kind = "upload" /\ reqs[i].pc = "save_csv"
    /\ dir' = save_to_csv(dir, reqs[i].emails, csv_filename(reqs[i].timestamp))
    /\ reqs' = [reqs EXCEPT ![i].pc = "done", ![i].result = "success"]
    /\ UNCHANGED <<op, arg, ret, now, resp, debug, cleared>>

StartClear ==
    /\ Len(reqs) < MaxReqs
    /\ reqs' = Append(reqs, Request("clear", "listdir", <<>>))
    /\ UNCHANGED <<op, arg, ret, dir, now, resp, debug, cleared>>

\* os.listdir(output_folder)
ClearListdirAt(i) ==
    /\ reqs[i].kind = "clear" /\ reqs[i].pc = "listdir"
    /\ reqs' = [reqs EXCEPT ![i].listing = DOMAIN dir, ![i].pc = "remove"]
    /\ UNCHANGED <<op, arg, ret, dir, now, resp, debug, cleared>>

\* os.remove of the next listed name, in the order the listing has them.
ClearRemoveAt(i) ==
    /\ reqs[i].kind = "clear" /\ reqs[i].pc = "remove"
    /\ \E f \in reqs[i].listing :
           /\ f \in DOMAIN dir
           /\ dir' = RemoveAll(dir, {f})
           /\ reqs' = [reqs EXCEPT ![i].listing = reqs[i].listing \ {f}]
    /\ UNCHANGED <<op, arg, ret, now, resp, debug, cleared>>

\* os.remove of a name another request has removed: FileNotFoundError, which
\* the handler answers with success false.
ClearFailAt(i) ==
    /\ reqs[i].kind = "clear" /\ reqs[i].pc = "remove"
    /\ \E f \in reqs[i].listing : f \notin DOMAIN dir
    /\ reqs' = [reqs EXCEPT ![i].pc = "done", ![i].result = "failure"]
    /\ UNCHANGED <<op, arg, ret, dir, now, resp, debug, cleared>>

ClearReturnAt(i) ==
    /\ reqs[i].kind = "clear" /\ reqs[i].pc = "remove"
    /\ reqs[i].listing = {}
    /\ reqs' = [reqs EXCEPT ![i].pc = "done", ![i].result = "success"]
    /\ UNCHANGED <<op, arg, ret, dir, now, resp, debug, cleared>>

UploadExtract == \E i \in 1..Len(reqs) : UploadExtractAt(i)
UploadSaveJson == \E i \in 1..Len(reqs) : UploadSaveJsonAt(i)
UploadSaveCsv == \E i \in 1..Len(reqs) : UploadSaveCsvAt(i)
ClearListdir == \E i \in 1..Len(reqs) : ClearListdirAt(i)
ClearRemove == \E i \in 1..Len(reqs) : ClearRemoveAt(i)
ClearFail == \E i \in 1..Len(reqs) : ClearFailAt(i)
ClearReturn == \E i \in 1..Len(reqs) : ClearReturnAt(i)

NextConc ==
    \/ StartUpload
    \/ UploadExtract
    \/ UploadSaveJson
    \/ UploadSaveCsv
    \/ StartClear
    \/ ClearListdir
    \/ ClearRemove
    \/ ClearFail
    \/ ClearReturn

SpecConc == InitHist /\ [][NextConc]_vars

(***************************************************************************)
(* Properties of the functions                                             *)
(***************************************************************************)

\* C1: the sequence extract_emails_from_text returns is strictly ascending
\* by lowercased value: each entry's lowercased form is smaller than the
\* next one's, so it is sorted and holds no two entries equal when case is
\* ignored.
C1_StrictlyAscending ==
    op = "extract_emails_from_text" =>
        \A i \in 1..(Len(ret) - 1) : LexLess(lower(ret[i]), lower(ret[i + 1]))

\* A result of two entries whose order as written is the reverse of their
\* order when lowercased.
C1_Witness ==
    /\ op = "extract_emails_from_text"
    /\ \E i \in 1..(Len(ret) - 1) : LexLess(ret[i + 1], ret[i])

\* C2: for every match m of the pattern in the text the result holds exactly
\* one entry whose lowercased form is lower(m), and that entry is the leftmost
\* match with that lowercased form, as written; every entry is a match.
C2_FirstCasingKept ==
    op = "extract_emails_from_text" =>
        LET ms == FindAll(arg.val, 1)
            first(i) == CHOOSE k \in 1..i :
                            /\ lower(ms[k]) = lower(ms[i])
                            /\ \A h \in 1..(k - 1) : lower(ms[h]) # lower(ms[i])
        IN  /\ \A i \in 1..Len(ms) :
                   /\ Cardinality({j \in 1..Len(ret) :
                                       lower(ret[j]) = lower(ms[i])}) = 1
                   /\ \A j \in 1..Len(ret) :
                          lower(ret[j]) = lower(ms[i]) => ret[j] = ms[first(i)]
            /\ \A j \in 1..Len(ret) : \E i \in 1..Len(ms) : ret[j] = ms[i]

\* "a@b.co A@B.CO": two matches equal when lowercased, the first one kept.
C2_Witness ==
    /\ op = "extract_emails_from_text"
    /\ arg.val = Str(<<"a", "@", "b", ".", "c", "o", " ",
                       "A", "@", "B", ".", "C", "O">>)
    /\ FindAll(arg.val, 1) = <<Str(<<"a", "@", "b", ".", "c", "o">>),
                               Str(<<"A", "@", "B", ".", "C", "O">>)>>
    /\ ret = <<Str(<<"a", "@", "b", ".", "c", "o">>)>>

\* The email has an '@'; the text after the first '@'.
HasAt(s) == \E i \in 1..Len(s) : s[i] = 64
AfterAt(s) ==
    LET p == CHOOSE i \in 1..Len(s) : s[i] = 64 /\ \A j \in 1..(i - 1) : s[j] # 64
    IN  SubSeq(s, p + 1, Len(s))

\* The text of s up to its first character of the set stops.
UpTo(s, stops) ==
    LET ends == {i \in 1..Len(s) : s[i] \in stops}
    IN  IF ends = {} THEN s
        ELSE SubSeq(s, 1, (CHOOSE i \in ends : \A j \in ends : i <= j) - 1)

IsCapitalized(r, s) ==
    /\ Len(r) = Len(s)
    /\ \A i \in 1..Len(s) :
           r[i] = IF i = 1 THEN UpperCh(s[i]) ELSE LowerCh(s[i])

\* C3 as stated: extract_company_from_email returns the empty string when the
\* email has no '@' or the part after the '@' has no '.', and never raises;
\* otherwise the part of the domain before its first '.', capitalized.
C3_EmptyWithoutDot ==
    op = "extract_company_from_email" =>
        /\ ret.raised = "none"
        /\ arg.val.isStr =>
               IF ~HasAt(arg.val.val)
                  \/ \A i \in 1..Len(AfterAt(arg.val.val)) :
                         AfterAt(arg.val.val)[i] # 46
               THEN ret.val = <<>>
               ELSE IsCapitalized(ret.val, UpTo(AfterAt(arg.val.val), {46}))

\* C3 (amended): extract_company_from_email never raises; it returns the
\* empty string when the email is no string or has no '@'; otherwise the text
\* between the first '@' and the next '.' or '@' (the end of the email when
\* neither follows), first character uppercased and the rest lowercased. A
\* domain without a '.' gives the whole domain capitalized, not "".
C3_CompanyLabel ==
    op = "extract_company_from_email" =>
        /\ ret.raised = "none"
        /\ IF ~arg.val.isStr \/ ~HasAt(arg.val.val) THEN ret.val = <<>>
           ELSE IsCapitalized(ret.val, UpTo(AfterAt(arg.val.val), {46, 64}))

\* An email with an '@' and no '.' after it, labelled with a non-empty text.
C3_Witness ==
    /\ op = "extract_company_from_email"
    /\ arg.val.isStr /\ HasAt(arg.val.val)
    /\ \A i \in 1..Len(AfterAt(arg.val.val)) : AfterAt(arg.val.val)[i] # 46
    /\ ret.val # <<>>

\* C4: the text of the upload is the decoding under the first encoding of
\* utf-8, latin-1, cp1252, iso-8859-1 that decodes without error; an encoding
\* is tried only after every earlier one failed; the permissive decoding is
\* used exactly when all four failed; the step always ends with a text.
C4_FirstEncodingThatDecodes ==
    op = "decode" =>
        LET okAt(i) == decode(arg.val, encodings[i]).ok
            all == 1..Len(encodings)
        IN  /\ ~ret.isNone
            /\ (\E i \in all : okAt(i)) =>
                   \E i \in all :
                       /\ okAt(i) /\ \A j \in 1..(i - 1) : ~okAt(j)
                       /\ ret.used = encodings[i]
                       /\ ret.content = decode(arg.val, encodings[i]).text
                       /\ ret.tried = SubSeq(encodings, 1, i)
            /\ (ret.used = "utf-8-ignore") <=> (\A i \in all : ~okAt(i))
            /\ (ret.used = "utf-8-ignore") =>
                   /\ ret.tried = encodings
                   /\ ret.content = Utf8Decode(arg.val, 1, "ignore").text

\* Bytes that are not UTF-8: utf-8 was tried and failed, latin-1 was tried
\* next and gave the text.
C4_Witness ==
    /\ op = "decode"
    /\ ~decode(arg.val, "utf-8").ok
    /\ ret.tried = <<"utf-8", "latin-1">>
    /\ ret.used = "latin-1"
    /\ ret.content = arg.val

(***************************************************************************)
(* Properties of the server                                                *)
(***************************************************************************)

JsonFiles(d) == {f \in DOMAIN d : EndsWith(f, Str(<<".", "j", "s", "o", "n">>))}
CsvFiles(d) == {f \in DOMAIN d : EndsWith(f, Str(<<".", "c", "s", "v">>))}

\* The second of the day a file name's timestamp stands for: the six digits
\* after "emails_".
StampTime(f) ==
    LET v(i) == f[7 + i] - 48
    IN  (10 * v(1) + v(2)) * 3600 + (10 * v(3) + v(4)) * 60 + 10 * v(5) + v(6)

\* C5: the history listing returns min(n, 20) summaries, n the number of
\* stored JSON records, and they are the most recent records, newest first
\* by the timestamp in the file name, each with its record's source and total.
C5_HistoryNewestFirst ==
    resp.op = "history" =>
        LET stored == JsonFiles(dir)
            n == Cardinality(stored)
            listed == resp.body
            names == {listed[i].filename : i \in 1..Len(listed)}
        IN  /\ resp.success = "true"
            /\ Len(listed) = IF n < 20 THEN n ELSE 20
            /\ names \subseteq stored
            /\ \A i \in 1..Len(listed) :
                   /\ listed[i].source = dir[listed[i].filename].data.source_file
                   /\ listed[i].total = dir[listed[i].filename].data.total_emails
            /\ \A i, j \in 1..Len(listed) :
                   i < j => StampTime(listed[i].filename)
                            > StampTime(listed[j].filename)
            /\ \A f \in stored \ names : \A g \in names :
                   StampTime(f) < StampTime(g)

\* A listing cut to twenty of more than twenty records, the minute having
\* changed between the first record and the last.
C5_Witness ==
    /\ resp.op = "history"
    /\ Cardinality(JsonFiles(dir)) > 20
    /\ Len(resp.body) = 20
    /\ \E f, g \in JsonFiles(dir) : f[11] # g[11]

NotFound(r) ==
    r.kind = "json" /\ r.status = 404 /\ r.success = "false" /\ r.exc = "none"

C7_DownloadFoundOrNotFound ==
    resp.op = "download" =>
        LET name == secure_filename(resp.request)
        IN  IF name \in DOMAIN dir
            THEN /\ resp.kind = "file"
                 /\ resp.body.content = dir[name]
            ELSE NotFound(resp)

\* C8 as stated: every failure inside a handler ends in a structured response
\* with success false and a message; no exception leaves a handler.
C8_FailuresAreStructured ==
    resp.op # "none" =>
        /\ resp.exc = "none"
        /\ resp.status >= 400 =>
               /\ resp.kind = "json"
               /\ resp.success = "false"
               /\ resp.error # ""

\* A step by which the stored artifacts change answers a successful upload
\* extraction or a clear-history.
OnlyUploadAndClearWrite ==
    dir' # dir =>
        \/ resp'.op = "clear-history"
        \/ resp'.op = "extract" /\ resp'.success = "true"

\* C10 as stated: the stored artifacts change only by a successful upload
\* extraction, which adds exactly one JSON and one CSV file, and by
\* clear-history.
C10_UploadAddsTwoFiles ==
    [][/\ OnlyUploadAndClearWrite
       /\ (resp'.op = "extract" /\ resp'.success = "true") =>
              /\ Cardinality(JsonFiles(dir')) = Cardinality(JsonFiles(dir)) + 1
              /\ Cardinality(CsvFiles(dir')) = Cardinality(CsvFiles(dir)) + 1
              /\ \A f \in DOMAIN dir : f \in DOMAIN dir' /\ dir'[f] = dir[f]
      ]_vars

\* C10 (amended): the stored artifacts change only by a successful upload
\* extraction and by clear-history. A successful upload writes exactly the
\* JSON and the CSV file named by its timestamp, adding the pair, or
\* replacing the pair an earlier upload of the same second stored, and
\* leaves every other file as it is. Extract-from-text, direct CSV
\* generation, download, history listing and a rejected upload leave the
\* folder unchanged.
C10_OnlyUploadAndClearWrite ==
    [][/\ OnlyUploadAndClearWrite
       /\ (resp'.op = "extract" /\ resp'.success = "true") =>
              LET j == json_filename(strftime(now'))
                  c == csv_filename(strftime(now'))
              IN  /\ resp'.body.files = [json |-> j, csv |-> c]
                  /\ DOMAIN dir' = DOMAIN dir \cup {j, c}
                  /\ dir'[j].type = "json" /\ dir'[c].type = "csv"
                  /\ (j \in DOMAIN dir) <=> (c \in DOMAIN dir)
                  /\ \A f \in DOMAIN dir \ {j, c} : dir'[f] = dir[f]
       /\ resp'.op \in {"extract-text", "download-csv", "download", "history"}
              => dir' = dir
       /\ (resp'.op = "extract" /\ resp'.success = "false") => dir' = dir
      ]_vars

\* A successful upload has left its pair of files beside the pair of an
\* earlier second.
C10_Witness ==
    /\ resp.op = "extract" /\ resp.success = "true"
    /\ resp.body.files.json \in DOMAIN dir
    /\ resp.body.files.csv \in DOMAIN dir
    /\ Cardinality(DOMAIN dir) = 4

JsonEmails(file) ==
    [i \in 1..Len(file.data.emails) |-> file.data.emails[i].email]
CsvEmails(file) == [i \in 1..(Len(file.rows) - 1) |-> file.rows[i + 1][1]]

\* No two upload requests have read the same timestamp.
DistinctTimestamps ==
    \A i, k \in 1..Len(reqs) :
        (i # k /\ reqs[i].kind = "upload" /\ reqs[k].kind = "upload")
            => reqs[i].timestamp # reqs[k].timestamp

\* C9 as stated, for uploads of different seconds (the specification sets
\* uploads of the same second aside): whenever no request is in progress,
\* for each timestamp the JSON and the CSV file both exist or are both
\* absent, and when they exist they list the same emails in the same order,
\* the result of one upload request.
C9_ArtifactsPaired ==
    (Quiescent /\ DistinctTimestamps) =>
        \A t \in StartTime..ConcMaxTime :
            LET j == json_filename(strftime(t))
                c == csv_filename(strftime(t))
            IN  /\ (j \in DOMAIN dir) <=> (c \in DOMAIN dir)
                /\ (j \in DOMAIN dir /\ c \in DOMAIN dir) =>
                       /\ JsonEmails(dir[j]) = CsvEmails(dir[c])
                       /\ \E i \in 1..Len(reqs) :
                              /\ reqs[i].kind = "upload"
                              /\ reqs[i].timestamp = strftime(t)
                              /\ reqs[i].emails = JsonEmails(dir[j])

====
